---- MODULE Spec2Model ----
(***************************************************************************)
(* Model of disk_objectstore/backup_utils.py: the BackupManager folder     *)
(* rotation (backup_auto_folders, get_last_backup_folder,                  *)
(* delete_old_backups), the container producer (backup_container), the     *)
(* construction of a manager (split_remote_and_path, __init__, run_cmd)    *)
(* and the find behind get_existing_backup_folders.                        *)
(*                                                                         *)
(* A folder name backup_<timestamp>_<randstr> is the sequence              *)
(* <<timestamp, randstr>>: both fields have a fixed width in the source    *)
(* (strftime "%Y%m%d%H%M%S", k=4 random characters), so Python's string    *)
(* comparison of two names is the lexicographic comparison of these        *)
(* sequences.  The empty sequence <<>> stands for None.                    *)
(***************************************************************************)
EXTENDS Integers, Sequences, FiniteSets, TLC

\* ---------------------------------------------------------------- bounds
MaxKeep == 2
MaxTime == 2
NumRand == 2
MaxCycles == 3
NumPruneFolders == 5
MaxObj == 2
MaxRuns == 2
MaxLen == 3

VARIABLES
    keep,           \* self.keep
    now,            \* last reading of the UTC clock, in seconds
    folders,        \* backup_* directories of the destination: name -> content
    live,           \* <path>/live-backup: <<>> when absent, else <<content>>
    link,           \* target of <path>/last-backup, <<>> when there is none
    pc,             \* position inside backup_auto_folders / delete_old_backups
    last_folder,    \* local last_folder of backup_auto_folders
    folder_name,    \* local folder_name of backup_auto_folders
    to_delete,      \* the part of to_delete the loop has not visited yet
    result,         \* how the last call ended: "none", "Done" or the error raised
    cycle,          \* number of calls of backup_auto_folders started so far
    \* history variables (read by the properties only)
    startFolders,   \* folders when the current cycle started
    startLink,      \* link when the current cycle started
    sorted_folders, \* what delete_old_backups enumerated (sorted)
    attempted,      \* the rm -rf commands issued by the current delete_old_backups
    rmFailed,       \* whether one of them failed
    moved,          \* whether the mv of the current cycle succeeded
    promoted,       \* names given by successful moves, in the order of the moves
    returned,       \* cycles whose producer returned without error
    steps,          \* the steps of the current cycle so far: <<name, succeeded>>
    afterFailedMove,\* whether the previous cycle ended with a failed mv
    \* backup_container and the store it reads
    loose, packs, index,    \* source store: loose entries, pack data, index rows
    staged,         \* what the staging folder received, per region
    tmpidx,         \* the sqlite dump in the temporary directory, <<>> when absent
    cstep,          \* position in the sequence of steps of backup_container
    cphase,         \* "ready", "copying", "dumped", "done" or "failed"
    base,           \* the running rsync's source folder: the entries there since
                    \* it started (must) and those deleted meanwhile (may)
    clog,           \* steps completed, in order
    cerr,           \* the exception backup_container raised, "none" if none
    crun,           \* number of calls of backup_container into this staging folder
    \* history variables of backup_container (read by the properties only)
    copied,         \* what the transfers of the current call copied, per region
    atStart,        \* the entries of the store when the current call started
    \* BackupManager.__init__
    dest,           \* the dest argument, a string (sequence of characters)
    exesFound,      \* whether every registered executable resolves (is_exe_found)
    hostUp,         \* whether the remote host answers the ssh <remote> exit
    rootExists,     \* whether the destination root exists
    remote,         \* self.remote: <<>> for None, <<s>> for the string s
    path,           \* str(self.path)
    ipc,            \* position inside __init__
    ierr,           \* the exception __init__ raised, "none" if none
    cmds,           \* the commands run_cmd was given, in order
    lastRun,        \* the last call of run_cmd: outcome of the dispatch and result
    \* get_existing_backup_folders (the find command)
    rootName,       \* name of the destination root directory
    entries,        \* what lies below the root: [name, type, depth]
    printed,        \* the lines find printed
    fpc             \* "ready" before the find, "done" after it

mgrVars == <<keep, now, folders, live, link, pc, last_folder, folder_name,
             to_delete, result, cycle>>
histVars == <<startFolders, startLink, sorted_folders, attempted, rmFailed,
              moved, promoted, returned, steps, afterFailedMove>>
contVars == <<loose, packs, index, staged, tmpidx, cstep, cphase, base, clog, cerr,
              crun, copied, atStart>>
ctorVars == <<dest, exesFound, hostUp, rootExists, remote, path, ipc, ierr, cmds,
              lastRun>>
findVars == <<rootName, entries, printed, fpc>>
vars == <<mgrVars, histVars, contVars, ctorVars, findVars>>

None == <<>>

Times == 1..MaxTime
Rands == 1..NumRand
Names == {<<t, r>> : t \in Times, r \in Rands}

\* ------------------------------------------------------- pure functions

\* Python's < on two strings, here on sequences of fixed-width fields.
RECURSIVE StrLess(_, _)
StrLess(a, b) ==
    IF a = <<>> THEN b # <<>>
    ELSE IF b = <<>> THEN FALSE
    ELSE IF Head(a) # Head(b) THEN Head(a) < Head(b)
    ELSE StrLess(Tail(a), Tail(b))

\* sorted() in descending order: what a reversed comparison would give.
RECURSIVE SortedDescending(_)
SortedDescending(S) ==
    IF S = {} THEN <<>>
    ELSE LET m == CHOOSE x \in S : \A y \in S \ {x} : StrLess(y, x)
         IN  <<m>> \o SortedDescending(S \ {m})

\* sorted(existing_backups): ascending by string comparison.
RECURSIVE Sorted(_)
Sorted(S) ==
    IF S = {} THEN <<>>
    ELSE LET m == CHOOSE x \in S : \A y \in S \ {x} : StrLess(x, y)
         IN  <<m>> \o Sorted(S \ {m})

\* Python's s[:stop] for any integer stop.
SliceTo(s, stop) ==
    LET n == Len(s)
        e == IF stop < 0 THEN (IF n + stop < 0 THEN 0 ELSE n + stop)
             ELSE (IF stop > n THEN n ELSE stop)
    IN  SubSeq(s, 1, e)

\* to_delete with the slice written [: -keep] instead of [: -(keep + 1)].
ToDeleteKeepOnly(s, k) == SliceTo(s, -k)

\* to_delete = sorted_folders[: -(self.keep + 1)]
ToDelete(s, k) == SliceTo(s, -(k + 1))

\* get_existing_backup_folders on success: the backup_*_* directories directly
\* under the destination root (live-backup and last-backup do not match).
get_existing_backup_folders == DOMAIN folders

\* get_last_backup_folder: sorted(existing)[-1] if existing else None.
get_last_backup_folder ==
    LET s == Sorted(get_existing_backup_folders)
    IN  IF s = <<>> THEN None ELSE s[Len(s)]

\* ------------------------------------------------ backup_auto_folders

\* Where control goes when backup_func raises, if the exception were swallowed.
AfterProducerRaiseSwallowed == "promote"

\* Where control goes when backup_func raises: the exception leaves
\* backup_auto_folders, nothing after the call is executed.
AfterProducerRaise == "idle"

\* Lines 245-254: the call starts and resolves the previous backup.
ResolvePrevious ==
    /\ pc = "idle"
    /\ cycle < MaxCycles
    /\ cycle' = cycle + 1
    /\ startFolders' = folders
    /\ startLink' = link
    /\ attempted' = <<>>
    /\ rmFailed' = FALSE
    /\ moved' = FALSE
    /\ sorted_folders' = <<>>
    /\ to_delete' = <<>>
    /\ folder_name' = None
    /\ afterFailedMove' = (\E i \in DOMAIN steps : steps[i] = <<"promote", FALSE>>)
    /\ \E found \in BOOLEAN :
         /\ steps' = << <<"resolve", found>> >>
         /\ IF found
            THEN /\ last_folder' = get_last_backup_folder
                 /\ pc' = "produce"
                 /\ result' = "none"
            ELSE \* find failed: get_existing_backup_folders raises BackupError
                 /\ last_folder' = None
                 /\ pc' = "idle"
                 /\ result' = "BackupError"
    /\ UNCHANGED <<ctorVars, findVars,
                   keep, now, folders, live, link, promoted, returned, contVars>>

\* backup_func(live_folder, last_folder) writes into the staging folder.
ProduceWrite ==
    /\ pc = "produce"
    /\ live' = << [by |-> cycle, complete |-> FALSE] >>
    /\ pc' = "producing"
    /\ UNCHANGED <<ctorVars, findVars,
                   keep, now, folders, link, last_folder, folder_name, to_delete,
                   result, cycle, histVars, contVars>>

\* backup_func returns: the staging folder holds a finished snapshot.
ProduceReturn ==
    /\ pc = "producing"
    /\ live' = << [by |-> cycle, complete |-> TRUE] >>
    /\ returned' = returned \cup {cycle}
    /\ steps' = Append(steps, <<"produce", TRUE>>)
    /\ pc' = "promote"
    /\ UNCHANGED <<ctorVars, findVars,
                   keep, now, folders, link, last_folder, folder_name, to_delete,
                   result, cycle, startFolders, startLink, sorted_folders,
                   attempted, rmFailed, moved, promoted, afterFailedMove,
                   contVars>>

\* backup_func raises, before or after it wrote into the staging folder.
ProduceRaise ==
    /\ pc \in {"produce", "producing"}
    /\ pc' = AfterProducerRaise
    /\ result' = "ProducerError"
    /\ steps' = Append(steps, <<"produce", FALSE>>)
    /\ UNCHANGED <<ctorVars, findVars,
                   keep, now, folders, live, link, last_folder, folder_name,
                   to_delete, cycle, startFolders, startLink, sorted_folders,
                   attempted, rmFailed, moved, promoted, returned,
                   afterFailedMove, contVars>>

\* mv <path>/live-backup <path>/<name>.  When <name> is an existing directory mv
\* moves live-backup INTO it (as <name>/live-backup), which fails only if that
\* entry is there already and is not empty.  Without a staging folder mv fails.
MvTarget(name) ==
    IF live = <<>>
    THEN [ok |-> FALSE, folders |-> folders]
    ELSE IF name \notin DOMAIN folders
    THEN [ok |-> TRUE,
          folders |-> [f \in DOMAIN folders \cup {name} |->
                         IF f = name
                         THEN [by |-> live[1].by, complete |-> live[1].complete,
                               nested |-> <<>>]
                         ELSE folders[f]]]
    ELSE IF folders[name].nested = <<>>
    THEN [ok |-> TRUE,
          folders |-> [folders EXCEPT ![name].nested = live]]
    ELSE [ok |-> FALSE, folders |-> folders]

\* The mv failed, if that were only logged like a failure of the ln.
PromoteFailedIgnored ==
    /\ pc' = "link"
    /\ result' = result
    /\ UNCHANGED <<ctorVars, findVars,
                   folders, live, moved, promoted>>

\* Lines 271-274: the mv failed, BackupError leaves backup_auto_folders.
PromoteFailed ==
    /\ pc' = "idle"
    /\ result' = "BackupError"
    /\ UNCHANGED <<ctorVars, findVars,
                   folders, live, moved, promoted>>

\* Lines 261-278: name the folder and move the staging folder to it.
Promote ==
    /\ pc = "promote"
    /\ \E t \in Times, r \in Rands, cmdOk \in BOOLEAN :
         /\ t >= now
         /\ now' = t
         /\ folder_name' = <<t, r>>
         /\ steps' = Append(steps, <<"promote", cmdOk /\ MvTarget(<<t, r>>).ok>>)
         /\ LET mv == MvTarget(<<t, r>>)
            IN  IF cmdOk /\ mv.ok
                THEN /\ folders' = mv.folders
                     /\ live' = <<>>
                     /\ moved' = TRUE
                     /\ promoted' = Append(promoted, <<t, r>>)
                     /\ pc' = "link"
                     /\ result' = result
                ELSE PromoteFailed
    /\ UNCHANGED <<ctorVars, findVars,
                   keep, link, last_folder, to_delete, cycle, startFolders,
                   startLink, sorted_folders, attempted, rmFailed, returned,
                   afterFailedMove, contVars>>

\* Where control goes when the ln fails, if that ended the cycle.
AfterLinkFailureAbort == "idle"

\* Lines 284-287: a failure of the ln is logged as a warning; the next
\* statement is self.delete_old_backups().
AfterLinkFailure == "prune"

\* Lines 280-291: ln -sfn <folder_name> <path>/last-backup.
LinkUpdate ==
    /\ pc = "link"
    /\ \E ok \in BOOLEAN :
         /\ link' = IF ok THEN folder_name ELSE link
         /\ steps' = Append(steps, <<"link", ok>>)
         /\ pc' = IF ok THEN "prune" ELSE AfterLinkFailure
    /\ UNCHANGED <<ctorVars, findVars,
                   keep, now, folders, live, last_folder, folder_name, to_delete,
                   result, cycle, startFolders, startLink, sorted_folders,
                   attempted, rmFailed, moved, promoted, returned,
                   afterFailedMove, contVars>>

\* ------------------------------------------------- delete_old_backups

\* Lines 222-223: enumerate, sort, slice.
PruneEnumerate ==
    /\ pc = "prune"
    /\ \E found \in BOOLEAN :
         /\ steps' = Append(steps, <<"prune", found>>)
         /\ IF found
            THEN /\ sorted_folders' = Sorted(get_existing_backup_folders)
                 /\ to_delete' = ToDelete(Sorted(get_existing_backup_folders), keep)
                 /\ pc' = "delete"
                 /\ result' = result
            ELSE \* find failed: BackupError leaves delete_old_backups and its caller
                 /\ pc' = "idle"
                 /\ result' = "BackupError"
                 /\ UNCHANGED <<ctorVars, findVars,
                   sorted_folders, to_delete>>
    /\ UNCHANGED <<ctorVars, findVars,
                   keep, now, folders, live, link, last_folder, folder_name, cycle,
                   startFolders, startLink, attempted, rmFailed, moved, promoted,
                   returned, afterFailedMove, contVars>>

\* Lines 224-229: one iteration of the loop, rm -rf <folder>.
PruneDelete ==
    /\ pc = "delete"
    /\ to_delete # <<>>
    /\ LET folder == Head(to_delete)
       IN  /\ attempted' = Append(attempted, folder)
           /\ \E ok \in BOOLEAN :
                IF ok
                THEN /\ folders' = [f \in DOMAIN folders \ {folder} |-> folders[f]]
                     /\ rmFailed' = rmFailed
                ELSE /\ folders' = folders
                     /\ rmFailed' = TRUE
    /\ to_delete' = Tail(to_delete)
    /\ UNCHANGED <<ctorVars, findVars,
                   keep, now, live, link, pc, last_folder, folder_name, result,
                   cycle, startFolders, startLink, sorted_folders, moved, promoted,
                   returned, steps, afterFailedMove, contVars>>

\* The loop is over: delete_old_backups, and with it the cycle, returns.
PruneReturn ==
    /\ pc = "delete"
    /\ to_delete = <<>>
    /\ pc' = "idle"
    /\ result' = "Done"
    /\ UNCHANGED <<ctorVars, findVars,
                   keep, now, folders, live, link, last_folder, folder_name,
                   to_delete, cycle, histVars, contVars>>

\* ---------------------------------------------------- backup_container

Objs == 1..MaxObj

\* The regions in the order of a dump of the index before the loose files.
StepOrderIndexFirst == <<"index", "loose", "packs", "rest">>

\* The regions in the order of a transfer of the packed files before the dump.
StepOrderPacksFirst == <<"loose", "packs", "index", "rest">>

\* The order of the statements of backup_container: loose files, sqlite dump
\* and its transfer, packed files, everything else.
StepOrder == <<"loose", "index", "packs", "rest">>

CurStep == IF cstep <= Len(StepOrder) THEN StepOrder[cstep] ELSE "end"

\* The source folder a call_rsync of the current step reads.
Region == IF CurStep = "loose" THEN loose ELSE packs

\* The statement after a call that returned: the next step, or the return.
StepCompleted ==
    /\ clog' = Append(clog, CurStep)
    /\ cstep' = cstep + 1
    /\ cphase' = IF cstep = Len(StepOrder) THEN "done" ELSE "ready"
    /\ cerr' = cerr

\* An exception leaves backup_container.
StepRaised(e) ==
    /\ cerr' = e
    /\ cphase' = "failed"
    /\ UNCHANGED <<ctorVars, findVars,
                   clog, cstep>>

NoCopy == [must |-> {}, may |-> {}]

\* call_rsync(loose_path | packs_path, path, ...): rsync starts reading the
\* source folder.
RsyncBegin ==
    /\ cphase = "ready"
    /\ CurStep \in {"loose", "packs"}
    /\ base' = [must |-> Region, may |-> {}]
    /\ cphase' = "copying"
    /\ UNCHANGED <<ctorVars, findVars,
                   mgrVars, histVars, loose, packs, index, staged, tmpidx, cstep,
                   clog, cerr, crun, copied, atStart>>

\* rsync ends.  Exit code 0: it copied the entries that were in the folder all
\* the time, and possibly entries written or deleted meanwhile; nothing is
\* deleted from the staging folder (there is no --delete).  Non-zero:
\* BackupError, some of the entries may have been copied.
RsyncEnd ==
    /\ cphase = "copying"
    /\ \E ok \in BOOLEAN, S \in SUBSET (Region \cup base.may) :
         /\ ok => base.must \subseteq S
         /\ staged' = [staged EXCEPT ![CurStep] = @ \cup S]
         /\ copied' = [copied EXCEPT ![CurStep] = @ \cup S]
         /\ IF ok THEN StepCompleted ELSE StepRaised("BackupError")
    /\ base' = NoCopy
    /\ UNCHANGED <<ctorVars, findVars,
                   mgrVars, histVars, loose, packs, index, tmpidx, crun, atStart>>

\* _sqlite_backup(sqlite_path, sqlite_temp_loc) and the is_file() test: the
\* online backup is a point-in-time copy of the index; sqlite3 may raise its
\* own exception; a missing dump raises BackupError.
SqliteBackup ==
    /\ cphase = "ready"
    /\ CurStep = "index"
    /\ \E outcome \in {"dumped", "nofile", "sqlite3.Error"} :
         IF outcome = "dumped"
         THEN /\ tmpidx' = <<index>>
              /\ cphase' = "dumped"
              /\ UNCHANGED <<ctorVars, findVars,
                   cerr, clog, cstep>>
         ELSE /\ tmpidx' = <<>>
              /\ StepRaised(IF outcome = "nofile" THEN "BackupError"
                            ELSE "sqlite3.Error")
    /\ UNCHANGED <<ctorVars, findVars,
                   mgrVars, histVars, loose, packs, index, staged, base, crun,
                   copied, atStart>>

\* call_rsync(sqlite_temp_loc, path, ...): packs.idx of the staging folder is
\* replaced by the dump; the temporary directory is removed in either case.
TransferIndex ==
    /\ cphase = "dumped"
    /\ \E ok \in BOOLEAN :
         IF ok
         THEN /\ staged' = [staged EXCEPT !.index = tmpidx[1]]
              /\ copied' = [copied EXCEPT !.index = tmpidx[1]]
              /\ StepCompleted
         ELSE /\ UNCHANGED <<ctorVars, findVars,
                   staged, copied>>
              /\ StepRaised("BackupError")
    /\ tmpidx' = <<>>
    /\ UNCHANGED <<ctorVars, findVars,
                   mgrVars, histVars, loose, packs, index, base, crun, atStart>>

\* call_rsync(container_root_path, path, ..., extra_args=[--exclude ...]).
TransferRest ==
    /\ cphase = "ready"
    /\ CurStep = "rest"
    /\ \E ok \in BOOLEAN :
         IF ok
         THEN /\ staged' = [staged EXCEPT !.rest = TRUE]
              /\ StepCompleted
         ELSE /\ staged' = staged
              /\ StepRaised("BackupError")
    /\ UNCHANGED <<ctorVars, findVars,
                   mgrVars, histVars, loose, packs, index, tmpidx, base, crun,
                   copied, atStart>>

\* The cycle ended without moving the staging folder away (the producer or
\* the mv failed); the next cycle calls backup_container on the same folder.
ContainerRestart ==
    /\ cphase \in {"failed", "done"}
    /\ crun < MaxRuns
    /\ crun' = crun + 1
    /\ cstep' = 1
    /\ cphase' = "ready"
    /\ clog' = <<>>
    /\ cerr' = "none"
    /\ copied' = [loose |-> {}, index |-> {}, packs |-> {}]
    /\ atStart' = loose \cup index
    /\ UNCHANGED <<ctorVars, findVars,
                   mgrVars, histVars, loose, packs, index, staged, tmpidx, base>>

\* The store's writer, running next to the backup: a new loose entry.
WriterAddLoose ==
    /\ \E o \in Objs \ (loose \cup packs) : loose' = loose \cup {o}
    /\ UNCHANGED <<ctorVars, findVars,
                   mgrVars, histVars, packs, index, staged, tmpidx, cstep, cphase,
                   base, clog, cerr, crun, copied, atStart>>

\* The writer appends an entry's data to a pack file.
WriterAppendPack ==
    /\ \E o \in Objs \ packs : packs' = packs \cup {o}
    /\ UNCHANGED <<ctorVars, findVars,
                   mgrVars, histVars, loose, index, staged, tmpidx, cstep, cphase,
                   base, clog, cerr, crun, copied, atStart>>

\* The writer commits the index row of an entry whose pack data is written.
WriterCommitIndex ==
    /\ \E o \in packs \ index : index' = index \cup {o}
    /\ UNCHANGED <<ctorVars, findVars,
                   mgrVars, histVars, loose, packs, staged, tmpidx, cstep, cphase,
                   base, clog, cerr, crun, copied, atStart>>

\* The writer deletes the loose file of an entry that is packed and indexed.
WriterDeleteLoose ==
    /\ \E o \in loose \cap index :
         /\ loose' = loose \ {o}
         /\ base' = IF cphase = "copying" /\ CurStep = "loose"
                    THEN [must |-> base.must \ {o}, may |-> base.may \cup {o}]
                    ELSE base
    /\ UNCHANGED <<ctorVars, findVars,
                   mgrVars, histVars, packs, index, staged, tmpidx, cstep, cphase,
                   clog, cerr, crun, copied, atStart>>

\* --------------------------------- split_remote_and_path, __init__, run_cmd

\* A destination string is a sequence of these characters.
Chars == {"a", "/", ":", "."}
Strs == UNION {[1..n -> Chars] : n \in 0..MaxLen}

\* Python's s.split(c).
RECURSIVE SplitOn(_, _)
SplitOn(s, c) ==
    IF \A i \in DOMAIN s : s[i] # c
    THEN <<s>>
    ELSE LET i == CHOOSE k \in DOMAIN s : s[k] = c /\ \A j \in 1..(k - 1) : s[j] # c
         IN  <<SubSeq(s, 1, i - 1)>> \o SplitOn(SubSeq(s, i + 1, Len(s)), c)

\* Python's c.join(parts).
RECURSIVE Join(_, _)
Join(parts, c) ==
    IF parts = <<>> THEN <<>>
    ELSE IF Len(parts) = 1 THEN parts[1]
    ELSE parts[1] \o <<c>> \o Join(Tail(parts), c)

IsComponent(x) == x # <<>> /\ x # <<".">>

\* str(pathlib.Path(s)) on a POSIX system: empty and "." components are
\* dropped, one leading "/" is the root, exactly two leading "/" are kept,
\* and a path with neither root nor components is ".".
PathStr(s) ==
    LET parts == SelectSeq(SplitOn(s, "/"), IsComponent)
        lead  == IF \A i \in DOMAIN s : s[i] = "/"
                 THEN Len(s)
                 ELSE (CHOOSE k \in DOMAIN s :
                          s[k] # "/" /\ \A j \in 1..(k - 1) : s[j] = "/") - 1
        root  == IF lead = 0 THEN <<>>
                 ELSE IF lead = 2 THEN <<"/", "/">>
                 ELSE <<"/">>
    IN  IF root = <<>> /\ parts = <<>> THEN <<".">> ELSE root \o Join(parts, "/")

\* A variant that accepts any number of separators and keeps the first two parts.
split_remote_and_path_lenient(d) ==
    LET split_dest == SplitOn(d, ":")
    IN  IF Len(split_dest) = 1
        THEN [raised |-> FALSE, remote |-> None, path |-> PathStr(d)]
        ELSE [raised |-> FALSE, remote |-> <<split_dest[1]>>,
              path |-> PathStr(split_dest[2])]

\* split_remote_and_path(dest): None is <<>>, the host string h is <<h>>.
split_remote_and_path(d) ==
    LET split_dest == SplitOn(d, ":")
    IN  IF Len(split_dest) = 1
        THEN [raised |-> FALSE, remote |-> None, path |-> PathStr(d)]
        ELSE IF Len(split_dest) = 2
        THEN [raised |-> FALSE, remote |-> <<split_dest[1]>>,
              path |-> PathStr(split_dest[2])]
        ELSE [raised |-> TRUE, remote |-> None, path |-> <<>>]

\* Python's truth value of self.remote: None and "" are false.
Truthy(r) == r # None /\ r[1] # <<>>

\* A variant of the keep validation that lets -1 through.
KeepInvalidBelowMinusOne(k) == k < -1

KeepInvalid(k) == k < 0

\* What subprocess.run can do with the command line it is given.
Outcomes == {"exit0", "nonzero", "nolaunch"}

\* run_cmd: subprocess.run raises when the command cannot be launched,
\* otherwise success is returncode == 0.
run_cmd(outcome) ==
    [raised |-> outcome = "nolaunch", success |-> outcome = "exit0"]

NoRun == [cmd |-> "none", outcome |-> "none", raised |-> FALSE, success |-> FALSE]

Ran(cmd, outcome) ==
    /\ cmds' = Append(cmds, cmd)
    /\ lastRun' = [cmd |-> cmd, outcome |-> outcome,
                   raised |-> run_cmd(outcome).raised,
                   success |-> run_cmd(outcome).success]

Raise(e) == ipc' = "raised" /\ ierr' = e

\* self.remote, self.path = split_remote_and_path(dest)
CtorSplit ==
    /\ ipc = "split"
    /\ LET r == split_remote_and_path(dest)
       IN  IF r.raised
           THEN /\ Raise("ValueError: Invalid destination format")
                /\ UNCHANGED <<remote, path>>
           ELSE /\ remote' = r.remote
                /\ path' = r.path
                /\ ipc' = "keep"
                /\ UNCHANGED ierr
    /\ UNCHANGED <<dest, exesFound, hostUp, rootExists, cmds, lastRun, findVars,
                   mgrVars, histVars, contVars>>

\* if self.keep < 0: raise ValueError
CtorCheckKeep ==
    /\ ipc = "keep"
    /\ IF KeepInvalid(keep)
       THEN Raise("ValueError: keep variable can't be negative")
       ELSE ipc' = "remote" /\ UNCHANGED ierr
    /\ UNCHANGED <<dest, exesFound, hostUp, rootExists, remote, path, cmds, lastRun,
                   findVars, mgrVars, histVars, contVars>>

\* if self.remote: self.check_if_remote_accessible()
CtorCheckRemote ==
    /\ ipc = "remote"
    /\ IF Truthy(remote)
       THEN \E o \in Outcomes :
              /\ o = "exit0" => hostUp
              /\ o = "nonzero" => ~hostUp
              /\ Ran("exit", o)
              /\ IF run_cmd(o).raised THEN Raise("FileNotFoundError")
                 ELSE IF ~run_cmd(o).success
                 THEN Raise("BackupError: Remote is not accessible")
                 ELSE ipc' = "exes" /\ UNCHANGED ierr
       ELSE ipc' = "exes" /\ UNCHANGED <<ierr, cmds, lastRun>>
    /\ UNCHANGED <<dest, exesFound, hostUp, rootExists, remote, path, findVars,
                   mgrVars, histVars, contVars>>

\* for _, path in self.exes.items(): if not is_exe_found(path): raise ValueError
CtorCheckExes ==
    /\ ipc = "exes"
    /\ IF exesFound
       THEN ipc' = "path" /\ UNCHANGED ierr
       ELSE Raise("ValueError: executable not accessible")
    /\ UNCHANGED <<dest, exesFound, hostUp, rootExists, remote, path, cmds, lastRun,
                   findVars, mgrVars, histVars, contVars>>

\* if not self.check_path_exists(self.path): the [ -e <path> ] test.  Over
\* ssh the test can also fail although the root exists.
CtorCheckPath ==
    /\ ipc = "path"
    /\ \E o \in Outcomes :
         /\ o = "exit0" => rootExists
         /\ o = "nonzero" => (~rootExists \/ Truthy(remote))
         /\ Ran("test", o)
         /\ IF run_cmd(o).raised THEN Raise("FileNotFoundError")
            ELSE IF run_cmd(o).success
            THEN ipc' = "constructed" /\ UNCHANGED ierr
            ELSE ipc' = "mkdir" /\ UNCHANGED ierr
    /\ UNCHANGED <<dest, exesFound, hostUp, rootExists, remote, path, findVars,
                   mgrVars, histVars, contVars>>

\* success = self.run_cmd(["mkdir", str(self.path)])[0]; raise ValueError if not
CtorMkdir ==
    /\ ipc = "mkdir"
    /\ \E o \in Outcomes :
         /\ o = "exit0" => ~rootExists
         /\ Ran("mkdir", o)
         /\ rootExists' = (rootExists \/ o = "exit0")
         /\ IF run_cmd(o).raised THEN Raise("FileNotFoundError")
            ELSE IF run_cmd(o).success
            THEN ipc' = "constructed" /\ UNCHANGED ierr
            ELSE Raise("ValueError: Couldn't access/create")
    /\ UNCHANGED <<dest, exesFound, hostUp, remote, path, findVars,
                   mgrVars, histVars, contVars>>

\* ------------------------------------- the find of get_existing_backup_folders

\* File names are sequences of tokens; "*" in a pattern matches any run of tokens.
Pattern == <<"backup", "_", "*", "_", "*">>

\* fnmatch as find -name applies it to the last component of a path.
RECURSIVE Glob(_, _)
Glob(p, n) ==
    IF p = <<>> THEN n = <<>>
    ELSE IF Head(p) = "*"
    THEN Glob(Tail(p), n) \/ (n # <<>> /\ Glob(p, Tail(n)))
    ELSE n # <<>> /\ Head(n) = Head(p) /\ Glob(Tail(p), Tail(n))

BackupName == <<"backup", "_", "t", "_", "r">>
LiveName == <<"live-backup">>
LastName == <<"last-backup">>
RootNames == {<<"dest">>, <<"backup", "_", "dir">>, <<"backup", "_", "my", "_", "store">>}

\* What may lie below the destination root: type d, f or l (symbolic link).
Candidates ==
    { [name |-> BackupName, type |-> "d", depth |-> 1],
      [name |-> LiveName, type |-> "d", depth |-> 1],
      [name |-> LastName, type |-> "l", depth |-> 1],
      [name |-> <<"backup", "_", "t", "_", "log">>, type |-> "f", depth |-> 1],
      [name |-> <<"other">>, type |-> "d", depth |-> 1],
      [name |-> BackupName, type |-> "d", depth |-> 2] }

\* find visits the starting point itself at depth 0.
Nodes == {[name |-> rootName, type |-> "d", depth |-> 0]} \cup entries

\* find <path> -maxdepth 1 -type d -name "backup_*_*" -print
FindPrint == {n \in Nodes : n.depth <= 1 /\ n.type = "d" /\ Glob(Pattern, n.name)}

\* get_existing_backup_folders: BackupError when the find fails.
Find ==
    /\ fpc = "ready"
    /\ \E ok \in BOOLEAN :
         IF ok THEN printed' = FindPrint /\ fpc' = "done"
         ELSE printed' = {} /\ fpc' = "raised"
    /\ UNCHANGED <<rootName, entries, ctorVars, mgrVars, histVars, contVars>>

ContIdle ==
    /\ loose = {} /\ packs = {} /\ index = {}
    /\ staged = [loose |-> {}, index |-> {}, packs |-> {}, rest |-> FALSE]
    /\ tmpidx = <<>>
    /\ cstep = 1
    /\ cphase = "ready"
    /\ base = NoCopy
    /\ clog = <<>>
    /\ cerr = "none"
    /\ crun = 1
    /\ copied = [loose |-> {}, index |-> {}, packs |-> {}]
    /\ atStart = loose \cup index

\* A manager constructed for the local destination "a", which exists.
CtorDone ==
    /\ dest = <<"a">>
    /\ exesFound = TRUE
    /\ hostUp = TRUE
    /\ rootExists = TRUE
    /\ remote = None
    /\ path = <<"a">>
    /\ ipc = "constructed"
    /\ ierr = "none"
    /\ cmds = <<"test">>
    /\ lastRun = [cmd |-> "test", outcome |-> "exit0", raised |-> FALSE,
                  success |-> TRUE]

FindIdle ==
    /\ rootName = <<"dest">>
    /\ entries = {}
    /\ printed = {}
    /\ fpc = "ready"

\* No call of backup_auto_folders has been made.
NoCycle ==
    /\ now = 1
    /\ folders = <<>>
    /\ live = <<>>
    /\ link = None
    /\ pc = "idle"
    /\ last_folder = None
    /\ folder_name = None
    /\ to_delete = <<>>
    /\ result = "none"
    /\ cycle = 0
    /\ startFolders = <<>>
    /\ startLink = None
    /\ sorted_folders = <<>>
    /\ attempted = <<>>
    /\ rmFailed = FALSE
    /\ moved = FALSE
    /\ promoted = <<>>
    /\ returned = {}
    /\ steps = <<>>
    /\ afterFailedMove = FALSE

\* A freshly constructed manager on an empty destination.
Init ==
    /\ keep \in 0..MaxKeep
    /\ now = 1
    /\ folders = <<>>
    /\ live = <<>>
    /\ link = None
    /\ pc = "idle"
    /\ last_folder = None
    /\ folder_name = None
    /\ to_delete = <<>>
    /\ result = "none"
    /\ cycle = 0
    /\ startFolders = <<>>
    /\ startLink = None
    /\ sorted_folders = <<>>
    /\ attempted = <<>>
    /\ rmFailed = FALSE
    /\ moved = FALSE
    /\ promoted = <<>>
    /\ returned = {}
    /\ steps = <<>>
    /\ afterFailedMove = FALSE
    /\ ContIdle
    /\ CtorDone
    /\ FindIdle

Next ==
    \/ ResolvePrevious
    \/ ProduceWrite
    \/ ProduceReturn
    \/ ProduceRaise
    \/ Promote
    \/ LinkUpdate
    \/ PruneEnumerate
    \/ PruneDelete
    \/ PruneReturn

Spec == Init /\ [][Next]_vars

\* delete_old_backups called on a destination that holds any set of the backup
\* folders backup_<i>_<i>, i in 1..NumPruneFolders, each a finished snapshot.
PruneNames == {<<i, i>> : i \in 1..NumPruneFolders}

InitPrune ==
    /\ keep \in 0..MaxKeep
    /\ now = 1
    /\ \E S \in SUBSET PruneNames :
         folders = [f \in S |-> [by |-> 0, complete |-> TRUE, nested |-> <<>>]]
    /\ live = <<>>
    /\ link = None
    /\ pc = "prune"
    /\ last_folder = None
    /\ folder_name = None
    /\ to_delete = <<>>
    /\ result = "none"
    /\ cycle = 0
    /\ startFolders = folders
    /\ startLink = None
    /\ sorted_folders = <<>>
    /\ attempted = <<>>
    /\ rmFailed = FALSE
    /\ moved = FALSE
    /\ promoted = <<>>
    /\ returned = {}
    /\ steps = <<>>
    /\ afterFailedMove = FALSE
    /\ ContIdle
    /\ CtorDone
    /\ FindIdle

NextPrune ==
    \/ PruneEnumerate
    \/ PruneDelete
    \/ PruneReturn

SpecPrune == InitPrune /\ [][NextPrune]_vars

\* backup_container called as the producer of a cycle, on a store in any
\* consistent state (every index row has its pack data), into an empty
\* staging folder.
InitContainer ==
    /\ keep = 0
    /\ now = 1
    /\ folders = <<>>
    /\ live = << [by |-> 1, complete |-> FALSE] >>
    /\ link = None
    /\ pc = "producing"
    /\ last_folder = None
    /\ folder_name = None
    /\ to_delete = <<>>
    /\ result = "none"
    /\ cycle = 1
    /\ startFolders = <<>>
    /\ startLink = None
    /\ sorted_folders = <<>>
    /\ attempted = <<>>
    /\ rmFailed = FALSE
    /\ moved = FALSE
    /\ promoted = <<>>
    /\ returned = {}
    /\ steps = <<>>
    /\ afterFailedMove = FALSE
    /\ loose \in SUBSET Objs
    /\ packs \in SUBSET Objs
    /\ index \in SUBSET packs
    /\ staged = [loose |-> {}, index |-> {}, packs |-> {}, rest |-> FALSE]
    /\ tmpidx = <<>>
    /\ cstep = 1
    /\ cphase = "ready"
    /\ base = NoCopy
    /\ clog = <<>>
    /\ cerr = "none"
    /\ crun = 1
    /\ copied = [loose |-> {}, index |-> {}, packs |-> {}]
    /\ atStart = loose \cup index
    /\ CtorDone
    /\ FindIdle

NextContainer ==
    \/ RsyncBegin
    \/ RsyncEnd
    \/ SqliteBackup
    \/ TransferIndex
    \/ TransferRest
    \/ WriterAddLoose
    \/ WriterAppendPack
    \/ WriterCommitIndex
    \/ WriterDeleteLoose
    \/ ContainerRestart

SpecContainer == InitContainer /\ [][NextContainer]_vars

\* -------------------------------------------------- construction of a manager

\* BackupManager(dest, logger, keep, exes) is called in any environment.
InitCtor ==
    /\ keep \in -1..MaxKeep
    /\ dest \in Strs
    /\ exesFound \in BOOLEAN
    /\ hostUp \in BOOLEAN
    /\ rootExists \in BOOLEAN
    /\ remote = None
    /\ path = <<>>
    /\ ipc = "split"
    /\ ierr = "none"
    /\ cmds = <<>>
    /\ lastRun = NoRun
    /\ NoCycle
    /\ ContIdle
    /\ FindIdle

NextCtor ==
    \/ CtorSplit
    \/ CtorCheckKeep
    \/ CtorCheckRemote
    \/ CtorCheckExes
    \/ CtorCheckPath
    \/ CtorMkdir

SpecCtor == InitCtor /\ [][NextCtor]_vars

\* ------------------------------------------- enumeration of the backup folders

InitFind ==
    /\ keep = 0
    /\ rootName \in RootNames
    /\ entries \in SUBSET Candidates
    /\ printed = {}
    /\ fpc = "ready"
    /\ NoCycle
    /\ ContIdle
    /\ CtorDone

NextFind ==
    \/ Find

SpecFind == InitFind /\ [][NextFind]_vars

\* ------------------------------------------------------------ properties

Range(s) == {s[i] : i \in DOMAIN s}

Finished(c) == c.complete /\ c.by \in returned

C2_ProducerErrorChangesNothing ==
    result = "ProducerError" =>
        /\ pc = "idle"
        /\ ~moved
        /\ attempted = <<>>
        /\ folders = startFolders
        /\ link = startLink

\* The producer raised in a cycle that started with backups and a link.
C2_Witness ==
    /\ result = "ProducerError"
    /\ DOMAIN startFolders # {}
    /\ startLink # None
    /\ live # <<>>
    /\ live[1].by = cycle

\* C3 (as claimed): once the mv succeeded the call never ends with an error.
C3_Orig_NoErrorAfterPromotion ==
    moved => result # "BackupError"

\* C4 (as claimed): after delete_old_backups has run, the folder the cycle
\* promoted exists; with keep = 0 (and every rm successful) it is the only one.
C4_Orig_NewestSurvivesPrune ==
    (pc = "idle" /\ result = "Done") =>
        /\ folder_name \in DOMAIN folders
        /\ (keep = 0 /\ ~rmFailed) => DOMAIN folders = {folder_name}

\* The most recently promoted folder that still exists, None if there is none.
LastPromotedExisting ==
    LET alive == {i \in DOMAIN promoted : promoted[i] \in DOMAIN folders}
    IN  IF alive = {} THEN None
        ELSE promoted[CHOOSE i \in alive : \A j \in alive : j <= i]

\* C5 (as claimed): the previous backup handed to the producer is the most
\* recently promoted folder that still exists, and is None exactly when there
\* is no backup folder.
C5_Orig_PreviousIsLatestPromoted ==
    pc = "produce" =>
        /\ last_folder = LastPromotedExisting
        /\ (last_folder = None) <=> (DOMAIN folders = {})

\* C8 (as claimed): an existing backup folder keeps its content in every step,
\* and disappears only in the deletion loop of delete_old_backups.
C8_Orig_BackupFoldersImmutable ==
    [][\A f \in DOMAIN folders :
          IF f \in DOMAIN folders'
          THEN folders'[f] = folders[f]
          ELSE pc = "delete"]_vars

\* The folders with at least k + 1 greater names among S: all but the k + 1
\* lexicographically greatest.
AllButGreatest(S, k) ==
    {f \in S : Cardinality({g \in S : StrLess(f, g)}) >= k + 1}

Min(a, b) == IF a < b THEN a ELSE b

\* C6: delete_old_backups issues rm -rf for exactly the folders that are not
\* among the keep + 1 greatest names, in ascending order, each once, whether or
\* not an earlier rm failed; if every rm succeeded, min(n, keep + 1) folders are
\* left, the greatest ones.
C6_PruneDeletesAllButKeepPlusOne ==
    LET S == Range(sorted_folders)
        D == AllButGreatest(S, keep)
    IN  /\ pc = "delete" =>
            /\ Len(sorted_folders) = Cardinality(S)
            /\ Range(attempted) \cup Range(to_delete) = D
            /\ Len(attempted) + Len(to_delete) = Cardinality(D)
            /\ \A i, j \in DOMAIN attempted :
                   i < j => StrLess(attempted[i], attempted[j])
            /\ S \ D \subseteq DOMAIN folders
        /\ (pc = "idle" /\ result = "Done") =>
            /\ Range(attempted) = D
            /\ Len(attempted) = Cardinality(D)
            /\ S \ D \subseteq DOMAIN folders
            /\ ~rmFailed =>
                 /\ DOMAIN folders = S \ D
                 /\ Cardinality(DOMAIN folders) = Min(Cardinality(S), keep + 1)

\* delete_old_backups finished after a failed rm followed by a successful one.
C6_Witness ==
    /\ pc = "idle" /\ result = "Done"
    /\ rmFailed
    /\ Len(attempted) >= 2
    /\ attempted[1] \in DOMAIN folders
    /\ attempted[Len(attempted)] \notin DOMAIN folders

FiveFolders == {<<1, 1>>, <<2, 2>>, <<3, 3>>, <<4, 4>>, <<5, 5>>}

\* C7 (as claimed): keep = 1 and the five folders backup_..01_aa ..
\* backup_..05_ee: exactly the two oldest are deleted, three are left, ...05 is
\* never deleted.
C7_Orig_FiveFoldersKeepOneDeletesTwo ==
    (keep = 1 /\ DOMAIN startFolders = FiveFolders) =>
        /\ <<5, 5>> \in DOMAIN folders
        /\ Range(attempted) \subseteq {<<1, 1>>, <<2, 2>>}
        /\ (pc = "idle" /\ result = "Done") =>
             /\ attempted = <<<<1, 1>>, <<2, 2>>>>
             /\ ~rmFailed => DOMAIN folders = {<<3, 3>>, <<4, 4>>, <<5, 5>>}

\* C7 (amended): with keep = 1 and these five folders delete_old_backups
\* deletes exactly the three oldest (...01, ...02, ...03), two are left
\* (...04 and ...05), and ...05 is never deleted.
C7_FiveFoldersKeepOneDeletesThree ==
    (keep = 1 /\ DOMAIN startFolders = FiveFolders) =>
        /\ <<5, 5>> \in DOMAIN folders
        /\ Range(attempted) \subseteq {<<1, 1>>, <<2, 2>>, <<3, 3>>}
        /\ (pc = "idle" /\ result = "Done") =>
             /\ attempted = <<<<1, 1>>, <<2, 2>>, <<3, 3>>>>
             /\ ~rmFailed => DOMAIN folders = {<<4, 4>>, <<5, 5>>}

\* The scenario ran to its end with every deletion successful.
C7_Witness ==
    /\ keep = 1
    /\ DOMAIN startFolders = FiveFolders
    /\ pc = "idle" /\ result = "Done"
    /\ ~rmFailed
    /\ Cardinality(DOMAIN folders) = 2

IsPrefix(s, t) == Len(s) <= Len(t) /\ s = SubSeq(t, 1, Len(s))

\* C9 (as claimed): the regions are transferred in the order loose, index
\* snapshot, packed, rest, each after the previous one completed, and a failure
\* at any step raises BackupError and ends the call.
C9_Orig_OrderedStepsRaiseBackupError ==
    /\ IsPrefix(clog, <<"loose", "index", "packs", "rest">>)
    /\ cphase = "done" <=> clog = <<"loose", "index", "packs", "rest">>
    /\ cphase = "failed" <=> cerr # "none"
    /\ cerr \in {"none", "BackupError"}

\* C10: next to a writer that adds loose entries, appends pack data and commits
\* an index row only after its pack data, every row of the index stored in the
\* finished backup has its pack data in the backup.
C10_NoDanglingIndexReference ==
    cphase = "done" => staged.index \subseteq staged.packs

\* A backup finished during which the writer appended pack data and committed
\* index rows, before and after the index was dumped.
C10_Witness ==
    /\ cphase = "done"
    /\ staged.index # {}
    /\ index # staged.index
    /\ staged.packs # packs \/ staged.packs \ staged.index # {}

\* The last step of the current cycle was the mv, and it failed.
MvFailedNow == steps # <<>> /\ steps[Len(steps)] = <<"promote", FALSE>>

\* C11: when the mv fails after the producer returned, the call ends with
\* BackupError, no ln and no rm is issued, the backup folders are unchanged and
\* the staging folder is still there with what the producer wrote; the next
\* cycle finds it and its producer can write into it.
C11_FailedMoveKeepsStaging ==
    /\ MvFailedNow =>
        /\ pc = "idle"
        /\ result = "BackupError"
        /\ ~moved
        /\ attempted = <<>>
        /\ link = startLink
        /\ folders = startFolders
        /\ live = << [by |-> cycle, complete |-> TRUE] >>
    /\ (afterFailedMove /\ pc = "produce") =>
        /\ live # <<>>
        /\ ENABLED ProduceWrite

\* The cycle after a failed mv reached Done.
C11_Witness ==
    /\ afterFailedMove
    /\ pc = "idle"
    /\ result = "Done"
    /\ folder_name \in DOMAIN folders

\* C12 (as claimed): after a cycle that reached Done and whose ln succeeded,
\* last-backup names the folder promoted in that cycle and that folder exists;
\* one cycle on an empty destination leaves exactly one folder, the link's target.
C12_Orig_LinkNamesExistingPromotedFolder ==
    (pc = "idle" /\ result = "Done"
       /\ \E i \in DOMAIN steps : steps[i] = <<"link", TRUE>>) =>
        /\ link = folder_name
        /\ folder_name \in DOMAIN folders
        /\ cycle = 1 => DOMAIN folders = {link}

StepNames == [i \in DOMAIN steps |-> steps[i][1]]

\* C18: the steps of a cycle occur in the order resolve, produce, promote,
\* link, prune; the mv is attempted at most once and only after the producer
\* returned; ln and prune only after a successful mv; and once the mv
\* succeeded the cycle does not end before prune was attempted, whatever the
\* outcome of the ln.
C18_StepsInOrder ==
    /\ IsPrefix(StepNames, <<"resolve", "produce", "promote", "link", "prune">>)
    /\ \A i \in DOMAIN steps :
         /\ steps[i][1] = "promote" => steps[i - 1] = <<"produce", TRUE>>
         /\ steps[i][1] = "link" => steps[i - 1] = <<"promote", TRUE>>
         /\ steps[i][1] = "prune" => steps[i - 2] = <<"promote", TRUE>>
    /\ (pc = "idle" /\ moved) => steps[Len(steps)][1] = "prune"
    /\ pc \in {"prune", "delete"} => moved

\* A cycle whose ln failed went on to prune and reached Done.
C18_Witness ==
    /\ pc = "idle"
    /\ result = "Done"
    /\ \E i \in DOMAIN steps : steps[i] = <<"link", FALSE>>
    /\ attempted # <<>>

\* C19 (as claimed): when backup_container finishes in a staging folder that
\* an aborted cycle left behind, the folder holds exactly what the transfers
\* of this call copied.
C19_Orig_StagingHoldsOnlyThisRun ==
    (cphase = "done" /\ crun > 1) =>
        /\ staged.loose = copied.loose
        /\ staged.packs = copied.packs
        /\ staged.index = copied.index

\* C20: every entry that was in the store (loose, or indexed in a pack) when
\* backup_container started is in the finished backup, as a loose file copied
\* by this call or as a row of the dumped index whose pack data this call
\* copied.
C20_NoObjectLost ==
    cphase = "done" =>
        \A o \in atStart :
            \/ o \in copied.loose
            \/ o \in copied.index /\ o \in copied.packs

\* A backup finished although an entry that was loose at its start was packed
\* and its loose file deleted before rsync copied it.
C20_Witness ==
    /\ cphase = "done"
    /\ crun = 1
    /\ \E o \in atStart : o \notin copied.loose /\ o \notin loose

\* ------------------------------------------------ properties of SpecCtor

Count(t, c) == Cardinality({i \in DOMAIN t : t[i] = c})

\* The text before and after the first ":" of a string that has one.
HostPart(t) == SubSeq(t, 1, (CHOOSE i \in DOMAIN t : t[i] = ":") - 1)
PathPart(t) == SubSeq(t, (CHOOSE i \in DOMAIN t : t[i] = ":") + 1, Len(t))

\* A path text that is already in the form pathlib prints: not empty, no
\* trailing "/" (but "/" and "//" themselves), no repeated "/" other than
\* exactly two leading ones, and no "." component (but "." itself).
IsNormal(t) ==
    /\ t # <<>>
    /\ t[Len(t)] = "/" => t \in {<<"/">>, <<"/", "/">>}
    /\ \A i \in 1..(Len(t) - 1) :
         (t[i] = "/" /\ t[i + 1] = "/") => (i = 1 /\ (Len(t) < 3 \/ t[3] # "/"))
    /\ t # <<".">> =>
         \A i \in DOMAIN t :
            ~ /\ t[i] = "."
              /\ (i = 1 \/ t[i - 1] = "/")
              /\ (i = Len(t) \/ t[i + 1] = "/")

FormatError == "ValueError: Invalid destination format"

\* C13: construction raises for keep < 0, for a destination with two or more
\* separators, for a remote host that does not answer and for an executable
\* that does not resolve, in each case without having issued the mkdir of the
\* destination root; with none of these, construction ends in an error only
\* when a command sent to the destination failed, and a constructed manager's
\* destination root exists.
C13_ValidationBeforeMkdir ==
    LET Invalid == \/ keep < 0
                   \/ Count(dest, ":") >= 2
                   \/ ~exesFound
                   \/ Truthy(remote) /\ ~hostUp
    IN  /\ "mkdir" \in Range(cmds) => ~Invalid
        /\ ipc \in {"constructed", "raised"} =>
             /\ Invalid => ipc = "raised" /\ "mkdir" \notin Range(cmds)
             /\ ipc = "constructed" => rootExists
             /\ (ipc = "raised" /\ ~Invalid) =>
                    lastRun.cmd # "none" /\ lastRun.outcome # "exit0"

\* A negative keep was rejected on a destination whose root did not exist.
C13_Witness ==
    /\ ipc = "raised"
    /\ keep < 0
    /\ Count(dest, ":") <= 1
    /\ ~rootExists
    /\ cmds = <<>>

\* C15 (as claimed): run_cmd never raises, and its success is true exactly
\* when the dispatched command exited with code 0, a command that could not
\* be launched included.
C15_Orig_RunCmdNeverRaises ==
    lastRun.cmd # "none" =>
        /\ ~lastRun.raised
        /\ lastRun.success <=> lastRun.outcome = "exit0"

\* C16 (as claimed): without a separator the result is (None, path) with path
\* equal to the input; with one separator the result is (host, path) and
\* host:path is the input again; with two or more an error is raised.
C16_Orig_SplitRoundTrips ==
    ipc # "split" =>
        /\ Count(dest, ":") = 0 =>
             ierr # FormatError /\ remote = None /\ path = dest
        /\ Count(dest, ":") = 1 =>
             /\ ierr # FormatError
             /\ remote = <<HostPart(dest)>>
             /\ remote[1] \o <<":">> \o path = dest
        /\ Count(dest, ":") >= 2 => ierr = FormatError

\* C16: without a separator the result is (None, path), with one separator it
\* is (host, path) where host is the text before the separator; in both, path
\* is in pathlib's normal form, and it equals the path text of the input (so
\* that host:path is the input again) exactly when that text is already in
\* normal form; with two or more separators ValueError is raised and nothing
\* is stored.
C16_SplitNormalisesPath ==
    ipc # "split" =>
        /\ Count(dest, ":") = 0 =>
             /\ ierr # FormatError
             /\ remote = None
             /\ IsNormal(path)
             /\ path = dest <=> IsNormal(dest)
        /\ Count(dest, ":") = 1 =>
             /\ ierr # FormatError
             /\ remote = <<HostPart(dest)>>
             /\ IsNormal(path)
             /\ path = PathPart(dest) <=> IsNormal(PathPart(dest))
             /\ remote[1] \o <<":">> \o path = dest <=> IsNormal(PathPart(dest))
        /\ Count(dest, ":") >= 2 =>
             /\ ipc = "raised"
             /\ ierr = FormatError
             /\ remote = None
             /\ path = <<>>

\* A host:path string whose path text pathlib rewrote.
C16_Witness ==
    /\ ipc # "split"
    /\ Count(dest, ":") = 1
    /\ HostPart(dest) # <<>>
    /\ ~IsNormal(PathPart(dest))
    /\ remote[1] \o <<":">> \o path # dest

\* C17 (as claimed): a constructed manager's remote is None or a non-empty
\* host, and its path is present.
C17_Orig_RemoteAbsentOrNonEmpty ==
    ipc = "constructed" =>
        /\ remote = None \/ remote[1] # <<>>
        /\ path # <<>>

\* ------------------------------------------------ properties of SpecFind

\* C14 (as claimed): get_existing_backup_folders returns only directories at
\* depth exactly 1 whose names match backup_*_*: never the destination root,
\* never live-backup, never last-backup.
C14_Orig_OnlyImmediateSubdirectories ==
    fpc = "done" =>
        \A n \in printed :
            /\ n.depth = 1
            /\ n.type = "d"
            /\ Glob(Pattern, n.name)
            /\ n.name \notin {LiveName, LastName}

====
